---- MODULE Spec2Model ----
(***************************************************************************)
(* Animation sequencing of the Digital Rhinos scene (src/unnamed/part_000):*)
(* the FlagModel component (rotate -> wave -> decay -> clickable, and the   *)
(* per-frame ripple pass) and the RhinoModel component (leg loop timeline  *)
(* and body timeline).                                                     *)
(*                                                                         *)
(* Time is gsap time, counted in ticks of 1/TicksPerUnit of a time unit.   *)
(* A tween created between two ticker ticks starts at the time of the last *)
(* tick, so its elapsed time is the sum of the tick deltas since creation.  *)
(***************************************************************************)
EXTENDS Integers, Sequences, FiniteSets, TLC

VARIABLES
    \* ---- assets (fixed by Init: what the loaders deliver) ----
    flagGroupFound,     \* gltf.scene.getObjectByName("Flag") instanceof Group
    vertexCount,        \* traversal order -> position.count of each Mesh of the group
    foundBones,         \* names of the Bone nodes of the rhino scene
    \* ---- FlagModel ----
    flagMounted,        \* "no" | "yes" | "removed"
    flagSetupDone,      \* the setup effect has run
    flagSetups,         \* number of runs of the setup effect
    flagSetupThrew,     \* the setup effect ended with an uncaught TypeError
    rotationY,          \* root.rotation.y, in 1/FullTurn of a turn
    waveStrength,       \* waveStrength.current, in 1/WaveUnit
    isClickable,        \* isClickable.current
    flagRef,            \* flagRef.current, .secondary, ... (mesh index, 0 = undefined)
    position,           \* mesh -> geometry.attributes.position.array, <<x, y, z>> per vertex
    originalPositions,  \* mesh -> geometry.userData.originalPositions (<<>> = unset)
    needsUpdate,        \* mesh -> position.needsUpdate
    normalsComputed,    \* meshes on which computeVertexNormals() ran
    material,           \* mesh -> material object the mesh holds (0 = Mat_Black)
    emissiveIntensity,  \* material -> emissiveIntensity, in tenths
    flagTweens,         \* root-timeline tweens created by FlagModel, in creation order
    emissiveScheduled,  \* number of emissive tweens FlagModel has scheduled
    cursor,             \* document.body.style.cursor
    href,               \* window.location.href
    flagClock,          \* gsap time since the flag setup effect ran (saturating)
    \* ---- RhinoModel ----
    rhinoMounted,       \* "no" | "yes" | "removed"
    rhinoSetupDone,     \* the setup effect ran past the bone checks
    bones,              \* bones.current
    legTl,              \* the leg loop timeline
    bodyTl,             \* the body timeline
    quaternion,         \* bone -> orientation
    startQuat,          \* neckBone.quaternion.clone() taken at setup
    rootX,              \* group.current.position.x, in 1/PosUnit
    legPlays,           \* number of paused -> playing transitions of legTl
    \* ---- observation ----
    fired               \* what the last step ran: "tick" or "frame", and the
                        \* callbacks and property writes the timelines made in it

flagVars == <<flagMounted, flagSetupDone, flagSetups, flagSetupThrew, rotationY,
              waveStrength, isClickable, flagRef, position, originalPositions, needsUpdate,
              normalsComputed, material, emissiveIntensity, flagTweens,
              emissiveScheduled, cursor, href, flagClock>>
rhinoVars == <<rhinoMounted, rhinoSetupDone, bones, legTl, bodyTl, quaternion, startQuat,
               rootX, legPlays>>
assetVars == <<flagGroupFound, vertexCount, foundBones>>
vars == <<assetVars, flagVars, rhinoVars, fired>>

----------------------------------------------------------------------------
(* Bounds of the model *)

\* ticks per time unit (resolution of gsap time)
TicksPerUnit == 2
\* largest ticker delta, in ticks
MaxDt == 2
\* largest number of meshes in the Flag group
MaxMeshes == 6
\* largest number of emissive tweens scheduled in one run
MaxEmissive == 4
\* largest number of runs of the flag setup effect
MaxSetups == 2

Min(a, b) == IF a <= b THEN a ELSE b
Max(a, b) == IF a >= b THEN a ELSE b

----------------------------------------------------------------------------
(* Durations and numeric scales *)

\* duration of the flag rotate tween (duration: 4)
RotateDuration == 4 * TicksPerUnit
\* duration of the wave strength decay tween (duration: 5)
DecayDuration == 5 * TicksPerUnit
\* delay and duration of the emissive tween (delay: 3, duration: 5.5)
EmissiveDelay == 3 * TicksPerUnit
EmissiveDuration == (55 * TicksPerUnit) \div 10

\* rotation.y is counted in 1/FullTurn of the full turn Math.PI * 2
FullTurn == RotateDuration * RotateDuration
\* waveStrength.current is counted in 1/WaveUnit; WaveStart is the value 5
WaveUnit == DecayDuration * DecayDuration
WaveStart == 5 * WaveUnit
\* emissiveIntensity 5.6, in tenths
EmissiveHigh == 56
\* emissiveIntensity of material k as the loader delivers it (three.js default 1), in tenths
InitialEmissive(k) == 10

AppUrl == "app"
SiteUrl == "https://digitalrhinos.com"

----------------------------------------------------------------------------
(* Easing.  Each ease returns the numerator of the eased progress of a     *)
(* tween at elapsed time t of duration d; the denominator is d * d.        *)

\* gsap "power2.inOut": p < .5 ? 2 p^2 : 1 - 2 (1 - p)^2
Power2InOut(t, d) ==
    IF 2 * t < d THEN 2 * t * t ELSE d * d - 2 * (d - t) * (d - t)

\* gsap "power2.out": 1 - (1 - p)^2
Power2Out(t, d) == d * d - (d - t) * (d - t)

\* the value a property tween writes: from + (to - from) * eased progress
Interp(from, to, num, den) == from + ((to - from) * num) \div den

----------------------------------------------------------------------------
(* The Flag asset *)

\* vertex count of the i-th mesh of the group, in traversal order
VertexCountOf(i) == 3 + (i % 3)
\* name of the material of the i-th mesh
MaterialName(i) == IF i % 2 = 1 THEN "DR_white" ELSE "other"
\* geometry.name of the i-th mesh
GeometryName(i) == IF i = 2 THEN "Plane" ELSE "other"
\* rest x of the j-th vertex of a mesh: -4 (beyond the anchored edge), -2 (anchored
\* edge), 0, 2 (free edge), 4 (beyond the free edge)
RestX(j) == 2 * j - 6

Meshes == DOMAIN vertexCount
\* materials: the own material of mesh i is i, Mat_Black is 0
Materials == {0} \cup (1..MaxMeshes)

----------------------------------------------------------------------------
(* FlagModel: setup effect *)

RECURSIVE InsertByCountUnstable(_, _)
\* faulty variant: an unstable sort, a mesh overtakes the meshes of equal count
InsertByCountUnstable(s, m) ==
    IF s = <<>> THEN <<m>>
    ELSE IF vertexCount[Head(s)] > vertexCount[m]
         THEN <<Head(s)>> \o InsertByCountUnstable(Tail(s), m)
         ELSE <<m>> \o s

RECURSIVE InsertByCount(_, _)
\* m inserted into s (descending by vertex count) behind every mesh that the
\* comparator b.count - a.count does not place after it (Array.prototype.sort is stable)
InsertByCount(s, m) ==
    IF s = <<>> THEN <<m>>
    ELSE IF vertexCount[Head(s)] >= vertexCount[m]
         THEN <<Head(s)>> \o InsertByCount(Tail(s), m)
         ELSE <<m>> \o s

RECURSIVE SortByCount(_)
\* deformMeshes.sort((a, b) => b.count - a.count) of the meshes s
SortByCount(s) ==
    IF s = <<>> THEN <<>>
    ELSE InsertByCount(SortByCount(SubSeq(s, 1, Len(s) - 1)), s[Len(s)])

\* deformMeshes after the traversal: every Mesh of the group, in traversal order
DeformMeshes == [i \in 1..Len(vertexCount) |-> i]

\* deformMeshes[k - 1] (0 = undefined)
Ranked(k) ==
    LET s == SortByCount(DeformMeshes) IN IF k <= Len(s) THEN s[k] ELSE 0

\* [primary, secondary, tertiary, quaternary, quincenternary]
Selected == [k \in 1..5 |-> Ranked(k)]

\* faulty variant: the guard tests the primary slot only
NotEnoughMeshesPrimaryOnly == Selected[1] = 0

\* if (!primary || !secondary) return
NotEnoughMeshes == Selected[1] = 0 \/ Selected[2] = 0

\* the forEach over the five selected slots reads mesh.geometry of each slot in
\* turn: it caches the slots before the first undefined one and throws there
CacheThrows == \E k \in 1..5 : Selected[k] = 0
CachedBySetup ==
    {Selected[k] : k \in {j \in 1..5 : \A i \in 1..j : Selected[i] # 0}}

NoRef == [current |-> 0, secondary |-> 0, tertiary |-> 0, quaternary |-> 0,
          quincenternary |-> 0]

RotateTween == [kind |-> "rotate", time |-> 0, inited |-> FALSE, from |-> 0, target |-> 0]
DecayTween == [kind |-> "decay", time |-> 0, inited |-> FALSE, from |-> 0, target |-> 0]
EmissiveTween(mat) ==
    [kind |-> "emissive", time |-> 0 - EmissiveDelay, inited |-> FALSE, from |-> 0,
     target |-> mat]

\* the traversal that brightens every material named DR_white
BrightenWhite ==
    [k \in Materials |->
        IF k \in Meshes /\ MaterialName(k) = "DR_white" /\ \E m \in Meshes : material[m] = k
        THEN EmissiveHigh ELSE emissiveIntensity[k]]

\* the body of the setup effect, from the Flag group lookup on
SetupEffect ==
    /\ flagSetupDone' = TRUE
    /\ flagSetups' = flagSetups + 1
    /\ fired' = {}
    /\ UNCHANGED <<assetVars, rhinoVars, rotationY, waveStrength, isClickable, position,
                   needsUpdate, material, emissiveScheduled, cursor, href, flagClock>>
    /\ IF ~flagGroupFound
       THEN UNCHANGED <<flagSetupThrew, flagRef, originalPositions, normalsComputed,
                        emissiveIntensity, flagTweens>>
       ELSE /\ emissiveIntensity' = BrightenWhite
            /\ IF NotEnoughMeshes
               THEN UNCHANGED <<flagSetupThrew, flagRef, originalPositions,
                                normalsComputed, flagTweens>>
               ELSE /\ normalsComputed' = normalsComputed \cup CachedBySetup
                    /\ originalPositions' =
                         [m \in Meshes |-> IF m \in CachedBySetup THEN position[m]
                                           ELSE originalPositions[m]]
                    /\ flagSetupThrew' = CacheThrows
                    /\ IF CacheThrows
                       THEN UNCHANGED <<flagRef, flagTweens>>
                       ELSE /\ flagRef' = [current |-> Selected[1],
                                           secondary |-> Selected[2],
                                           tertiary |-> Selected[3],
                                           quaternary |-> Selected[4],
                                           quincenternary |-> Selected[5]]
                            /\ flagTweens' = Append(flagTweens, RotateTween)

\* the setup effect runs when the component is mounted
FlagSetup ==
    /\ flagMounted = "no"
    /\ href = AppUrl
    /\ flagMounted' = "yes"
    /\ SetupEffect

\* the setup effect runs again in the mounted component (useEffect(..., [gltf])
\* returns no cleanup): the refs and the tweens of the earlier run stay
FlagSetupAgain ==
    /\ flagMounted = "yes"
    /\ flagSetups < MaxSetups
    /\ href = AppUrl
    /\ UNCHANGED flagMounted
    /\ SetupEffect

----------------------------------------------------------------------------
(* FlagModel: the tweens on gsap's root timeline *)

TweenDuration(kind) ==
    CASE kind = "rotate" -> RotateDuration
      [] kind = "decay" -> DecayDuration
      [] kind = "emissive" -> EmissiveDuration

\* the state a ticker tick of the flag tweens reads and writes
FlagCtx ==
    [rotationY |-> rotationY, waveStrength |-> waveStrength, isClickable |-> isClickable,
     emissiveIntensity |-> emissiveIntensity, keep |-> <<>>, new |-> <<>>, fired |-> {}]

\* gsap.to(root.rotation, {y: Math.PI * 2, duration: 4, ease: "power2.inOut", onComplete})
RenderRotate(tw, c, t) ==
    LET d == RotateDuration
        from == IF tw.inited THEN tw.from ELSE c.rotationY
        c1 == [c EXCEPT !.rotationY = Interp(from, FullTurn, Power2InOut(t, d), d * d),
                        !.fired = @ \cup {"rotate"}]
    IN  IF t < d
        THEN [c1 EXCEPT !.keep = Append(@, [tw EXCEPT !.time = t, !.inited = TRUE,
                                                      !.from = from])]
        ELSE [c1 EXCEPT !.waveStrength = WaveStart,
                        !.new = Append(@, DecayTween),
                        !.fired = @ \cup {"rotate.onComplete"}]

\* faulty variant: the decay tween marks the flag clickable on every update
RenderDecayClickableOnUpdate(tw, c, t) ==
    LET d == DecayDuration
        from == IF tw.inited THEN tw.from ELSE c.waveStrength
        c1 == [c EXCEPT !.waveStrength = Interp(from, 0, Power2Out(t, d), d * d),
                        !.isClickable = TRUE,
                        !.fired = @ \cup {"decay"}]
    IN  IF t < d
        THEN [c1 EXCEPT !.keep = Append(@, [tw EXCEPT !.time = t, !.inited = TRUE,
                                                      !.from = from])]
        ELSE [c1 EXCEPT !.fired = @ \cup {"decay.onComplete"}]

\* gsap.to(waveStrength, {current: 0, duration: 5, ease: "power2.out", onComplete})
RenderDecay(tw, c, t) ==
    LET d == DecayDuration
        from == IF tw.inited THEN tw.from ELSE c.waveStrength
        c1 == [c EXCEPT !.waveStrength = Interp(from, 0, Power2Out(t, d), d * d),
                        !.fired = @ \cup {"decay"}]
    IN  IF t < d
        THEN [c1 EXCEPT !.keep = Append(@, [tw EXCEPT !.time = t, !.inited = TRUE,
                                                      !.from = from])]
        ELSE [c1 EXCEPT !.isClickable = TRUE,
                        !.fired = @ \cup {"decay.onComplete"}]

\* gsap.to(mat, {emissiveIntensity: 5.6, duration: 5.5, delay: 3, ease: "power2.out"})
RenderEmissive(tw, c, t) ==
    LET d == EmissiveDuration
        from == IF tw.inited THEN tw.from ELSE c.emissiveIntensity[tw.target]
        c1 == [c EXCEPT !.emissiveIntensity[tw.target] =
                            Interp(from, EmissiveHigh, Power2Out(t, d), d * d),
                        !.fired = @ \cup {"emissive"}]
    IN  IF t < d
        THEN [c1 EXCEPT !.keep = Append(@, [tw EXCEPT !.time = t, !.inited = TRUE,
                                                      !.from = from])]
        ELSE c1

\* one tween of the root timeline rendered at a tick of delta dt: nothing while its
\* delay runs, else its value at the new time; a tween that reaches its end is removed
RenderTween(tw, c, dt) ==
    LET t == Min(tw.time + dt, TweenDuration(tw.kind))
    IN  IF t < 0 THEN [c EXCEPT !.keep = Append(@, [tw EXCEPT !.time = t])]
        ELSE CASE tw.kind = "rotate" -> RenderRotate(tw, c, t)
               [] tw.kind = "decay" -> RenderDecay(tw, c, t)
               [] tw.kind = "emissive" -> RenderEmissive(tw, c, t)

RECURSIVE RenderTweens(_, _, _)
\* the tweens tws rendered in creation order
RenderTweens(tws, c, dt) ==
    IF tws = <<>> THEN c
    ELSE RenderTweens(Tail(tws), RenderTween(Head(tws), c, dt), dt)

\* how long flagClock counts
FlagClockMax == RotateDuration + DecayDuration + MaxDt

\* the flag part of a ticker tick: the tweens rendered, and what they fired
FlagRendered(dt) == RenderTweens(flagTweens, FlagCtx, dt)

FlagTick(c, dt) ==
    /\ rotationY' = c.rotationY
    /\ waveStrength' = c.waveStrength
    /\ isClickable' = c.isClickable
    /\ emissiveIntensity' = c.emissiveIntensity
    /\ flagTweens' = c.keep \o c.new
    /\ flagClock' = IF flagSetupDone THEN Min(flagClock + dt, FlagClockMax)
                    ELSE flagClock
    /\ UNCHANGED <<flagMounted, flagSetupDone, flagSetups, flagSetupThrew, flagRef, position,
                   originalPositions, needsUpdate, normalsComputed, material,
                   emissiveScheduled, cursor, href>>

----------------------------------------------------------------------------
(* FlagModel: useFrame *)

\* values of clock.getElapsedTime() a frame is called with
ClockSamples == {0, 1}

\* Math.sin(time * 4.2 + x * 2.0) in thousandths
Sin1000(time, x) ==
    LET phase10 == 42 * time + 20 * x
    IN  CASE phase10 = 0 - 80 -> 0 - 989
          [] phase10 = 0 - 40 -> 757
          [] phase10 = 0 -> 0
          [] phase10 = 40 -> 0 - 757
          [] phase10 = 80 -> 989
          [] phase10 = 0 - 38 -> 612
          [] phase10 = 2 -> 199
          [] phase10 = 42 -> 0 - 872
          [] phase10 = 82 -> 941
          [] phase10 = 122 -> 0 - 358

\* faulty variant: the edge factor is not clamped
EdgeFactor4Unclamped(x) == x + 2

\* edgeFactor = Math.min(Math.max((x + width / 2) / width, 0), 1), in quarters
EdgeFactor4(x) == Min(Max(x + 2, 0), 4)

\* wave = sin(...) * waveHeight * edgeFactor with waveHeight = 0.15 * waveStrength,
\* in 1 / (1000 * 100 * WaveUnit * 4)
Wave(time, x) == Sin1000(time, x) * (15 * waveStrength) * EdgeFactor4(x)

\* the position array rippleMesh writes for a mesh with rest positions original
Rippled(original, time) ==
    [j \in 1..Len(original) |->
        <<original[j][1],
          original[j][2] + Wave(time, original[j][1]),
          original[j][3] + Wave(time, original[j][1])>>]

\* the meshes the frame ripples: primary, secondary and the optional ones that
\* are set, each only if it has cached rest positions
RippleTargets ==
    {m \in ({flagRef.current, flagRef.secondary, flagRef.tertiary, flagRef.quaternary,
             flagRef.quincenternary} \ {0}) : originalPositions[m] # <<>>}

\* faulty variant: the wave strength test is missing
FrameSkipsWithoutTargetsOnly == flagRef.current = 0 \/ flagRef.secondary = 0

\* faulty variant: the emissive tweens are scheduled by the first qualifying frame only
EmissiveTweensOnce ==
    IF emissiveScheduled = 0
    THEN <<EmissiveTween(material[flagRef.current]),
           EmissiveTween(material[flagRef.secondary])>>
    ELSE <<>>

\* [primary, secondary].forEach((mesh) => gsap.to(mesh.material, {...})): the tweens
\* a qualifying frame schedules
EmissiveTweens ==
    <<EmissiveTween(material[flagRef.current]), EmissiveTween(material[flagRef.secondary])>>

\* if (waveStrength.current <= 0) return;  if (!primary || !secondary) return;
FrameSkips == waveStrength <= 0 \/ flagRef.current = 0 \/ flagRef.secondary = 0

Frame(time) ==
    /\ flagMounted = "yes"
    /\ href = AppUrl
    /\ fired' = {"frame"}
    /\ UNCHANGED <<assetVars, rhinoVars, flagMounted, flagSetupDone, flagSetups, flagSetupThrew,
                   rotationY, waveStrength, isClickable, flagRef, originalPositions,
                   normalsComputed, material, emissiveIntensity, cursor, href, flagClock>>
    /\ IF FrameSkips
       THEN UNCHANGED <<position, needsUpdate, flagTweens, emissiveScheduled>>
       ELSE /\ emissiveScheduled + 2 <= MaxEmissive
            /\ position' = [m \in Meshes |-> IF m \in RippleTargets
                                             THEN Rippled(originalPositions[m], time)
                                             ELSE position[m]]
            /\ needsUpdate' = [m \in Meshes |-> needsUpdate[m] \/ m \in RippleTargets]
            /\ flagTweens' = flagTweens \o EmissiveTweens
            /\ emissiveScheduled' = emissiveScheduled + Len(EmissiveTweens)

----------------------------------------------------------------------------
(* FlagModel: pointer handlers of the hit area *)

\* onClick: if (waveStrength.current > 0) return; window.location.href = ...
ClickNavigates == ~(waveStrength > 0)

Click ==
    /\ flagMounted = "yes"
    /\ href = AppUrl
    /\ href' = IF ClickNavigates THEN SiteUrl ELSE href
    /\ fired' = {}
    /\ UNCHANGED <<assetVars, rhinoVars, flagMounted, flagSetupDone, flagSetups, flagSetupThrew,
                   rotationY, waveStrength, isClickable, flagRef, position,
                   originalPositions, needsUpdate, normalsComputed, material,
                   emissiveIntensity, flagTweens, emissiveScheduled, cursor, flagClock>>

\* message_console(): a primary mesh whose geometry is named "Plane" gets Mat_Black
MessageConsole ==
    [m \in Meshes |-> IF m = flagRef.current /\ GeometryName(m) = "Plane" THEN 0
                      ELSE material[m]]

PointerOver ==
    /\ flagMounted = "yes"
    /\ href = AppUrl
    /\ material' = MessageConsole
    /\ cursor' = IF waveStrength > 0 THEN cursor ELSE "pointer"
    /\ fired' = {}
    /\ UNCHANGED <<assetVars, rhinoVars, flagMounted, flagSetupDone, flagSetups, flagSetupThrew,
                   rotationY, waveStrength, isClickable, flagRef, position,
                   originalPositions, needsUpdate, normalsComputed, emissiveIntensity,
                   flagTweens, emissiveScheduled, href, flagClock>>

PointerOut ==
    /\ flagMounted = "yes"
    /\ href = AppUrl
    /\ cursor' = "default"
    /\ fired' = {}
    /\ UNCHANGED <<assetVars, rhinoVars, flagMounted, flagSetupDone, flagSetups, flagSetupThrew,
                   rotationY, waveStrength, isClickable, flagRef, position,
                   originalPositions, needsUpdate, normalsComputed, material,
                   emissiveIntensity, flagTweens, emissiveScheduled, href, flagClock>>

\* the component is removed: its setup effect returned no cleanup, so nothing is killed
FlagTeardown ==
    /\ flagMounted = "yes"
    /\ href = AppUrl
    /\ flagMounted' = "removed"
    /\ fired' = {}
    /\ UNCHANGED <<assetVars, rhinoVars, flagSetupDone, flagSetups, flagSetupThrew, rotationY,
                   waveStrength, isClickable, flagRef, position, originalPositions,
                   needsUpdate, normalsComputed, material, emissiveIntensity, flagTweens,
                   emissiveScheduled, cursor, href, flagClock>>

----------------------------------------------------------------------------
(* RhinoModel: bones and orientations *)

LegBones == {"Front_leg_1_L", "Back_leg_1_L", "Front_leg_1_R", "Back_leg_1_R"}
NeckBone == "Neck_mover_bone"
AllBones == LegBones \cup {NeckBone}

\* An orientation is the spherical interpolation from keyframe a to keyframe b
\* at eased progress ease(num / den); a keyframe itself is the interpolation at 0.
Key(a) == [a |-> a, b |-> a, ease |-> "none", num |-> 0, den |-> 1]

\* faulty variant: the interpolation runs from qb to qa
SlerpReversed(a, b, ease, num, den) ==
    IF num = 0 THEN Key(b)
    ELSE IF num = den THEN Key(a)
    ELSE [a |-> b, b |-> a, ease |-> ease, num |-> num, den |-> den]

\* Quaternion.slerpQuaternions(qa, qb, t) at t = ease(num / den): exactly qa at
\* progress 0 and exactly qb at progress 1
Slerp(a, b, ease, num, den) ==
    IF num = 0 THEN Key(a)
    ELSE IF num = den THEN Key(b)
    ELSE [a |-> a, b |-> b, ease |-> ease, num |-> num, den |-> den]

\* orientation of a bone as the loader delivers it (a keyframe named by the bone)
RestPose(bone) == Key(bone)
LookAtViewerQuat == "lookAtViewerQuat"

\* the <<from, to>> keyframes of each leg in the first half cycle
FirstHalf(bone) ==
    CASE bone = "Front_leg_1_L" -> <<"backwardFrontL", "forwardFrontL">>
      [] bone = "Back_leg_1_L" -> <<"forwardBackL", "backwardBackL">>
      [] bone = "Front_leg_1_R" -> <<"forwardFrontR", "backwardFrontR">>
      [] bone = "Back_leg_1_R" -> <<"backwardBackR", "forwardBackR">>

\* ... and in the second half cycle, the reverse
SecondHalf(bone) == <<FirstHalf(bone)[2], FirstHalf(bone)[1]>>

----------------------------------------------------------------------------
(* RhinoModel: timelines *)

\* the two tweens of legTl (duration: 0.5 each)
LegHalf == TicksPerUnit \div 2
LegCycle == 2 * LegHalf
\* bodyTl.to({}, {duration: 5})
WaitDuration == 5 * TicksPerUnit
\* bodyTl.to(group.current.position, {x: -9.5, duration: 4})
MoveDuration == 4 * TicksPerUnit
\* the neck tween (duration: 1.8), rounded to the tick
NeckDuration == (18 * TicksPerUnit + 5) \div 10

\* position.x is counted in 1/PosUnit
PosUnit == 2 * MoveDuration * MoveDuration
\* group.current.position.set(-15, -0.9, -3)
XStart == (0 - 15) * PosUnit
\* x: -9.5
XEnd == ((0 - 19) * PosUnit) \div 2

\* positions of the steps on bodyTl
PlayAt == WaitDuration
PauseAt == WaitDuration + MoveDuration
BodyDuration(neck) == PauseAt + (IF neck THEN NeckDuration ELSE 0)

NoTimeline == [created |-> FALSE, killed |-> FALSE, paused |-> FALSE, time |-> 0,
               neck |-> FALSE, inited |-> FALSE, from |-> 0]
\* gsap.timeline({repeat: -1, paused: true})
NewLegTl == [NoTimeline EXCEPT !.created = TRUE, !.paused = TRUE]
\* faulty variant: the neck tween is added without the if (neckBone) test
NewBodyTlAlwaysNeck(neck) == [NoTimeline EXCEPT !.created = TRUE, !.neck = TRUE]

\* gsap.timeline(), with the neck tween only if (neckBone)
NewBodyTl(neck) == [NoTimeline EXCEPT !.created = TRUE, !.neck = neck]

\* faulty variant: kill() leaves the timeline on the root timeline
KillNothing(tl) == tl

\* timeline.kill()
Kill(tl) == [tl EXCEPT !.killed = TRUE]

\* the timeline is on the root timeline and advances with the ticker
Running(tl) == tl.created /\ ~tl.killed /\ ~tl.paused

\* faulty variant: the guard returns only if every leg bone is missing
MissingEveryLegBone == LegBones \cap foundBones = {}

\* if (!frontLeg1L || !backLeg1L || !frontLeg1R || !backLeg1R) return
MissingLegBones == ~(LegBones \subseteq foundBones)

\* (of the start state only position.x is tracked: scale and rotation are set
\* once and never animated)
RhinoSetup ==
    /\ rhinoMounted = "no"
    /\ href = AppUrl
    /\ rhinoMounted' = "yes"
    /\ bones' = foundBones
    /\ fired' = {}
    /\ UNCHANGED <<assetVars, flagVars, quaternion, legPlays>>
    /\ IF MissingLegBones
       THEN UNCHANGED <<rhinoSetupDone, legTl, bodyTl, startQuat, rootX>>
       ELSE /\ rhinoSetupDone' = TRUE
            /\ legTl' = NewLegTl
            /\ rootX' = XStart
            /\ bodyTl' = NewBodyTl(NeckBone \in foundBones)
            /\ startQuat' = IF NeckBone \in foundBones THEN quaternion[NeckBone]
                            ELSE startQuat

\* the cleanup the setup effect returned: legTl.kill(); bodyTl.kill()
RhinoCleanup ==
    /\ rhinoMounted = "yes"
    /\ href = AppUrl
    /\ rhinoMounted' = "removed"
    /\ legTl' = IF rhinoSetupDone THEN Kill(legTl) ELSE legTl
    /\ bodyTl' = IF rhinoSetupDone THEN Kill(bodyTl) ELSE bodyTl
    /\ fired' = {}
    /\ UNCHANGED <<assetVars, flagVars, rhinoSetupDone, bones, quaternion, startQuat,
                   rootX, legPlays>>

\* orientation the leg loop gives a leg at position c of its cycle
LegPose(bone, c) ==
    IF c <= LegHalf
    THEN Slerp(FirstHalf(bone)[1], FirstHalf(bone)[2], "sine.inOut", c, LegHalf)
    ELSE Slerp(SecondHalf(bone)[1], SecondHalf(bone)[2], "sine.inOut", c - LegHalf,
               LegHalf)

\* faulty variant: pause() leaves the leg loop advancing
LegAdvancesWhilePaused == legTl.created /\ ~legTl.killed

\* legTl rendered at a tick: it advances only if it was playing when the tick began
\* (legTl precedes bodyTl on the root timeline)
LegAdvances == Running(legTl)
LegTimeAfter(dt) == IF LegAdvances THEN (legTl.time + dt) % LegCycle ELSE legTl.time

\* bodyTl rendered at a tick
BodyAdvances == Running(bodyTl) /\ bodyTl.time < BodyDuration(bodyTl.neck)
BodyTimeAfter(dt) ==
    IF BodyAdvances THEN Min(bodyTl.time + dt, BodyDuration(bodyTl.neck))
    ELSE bodyTl.time
\* faulty variant: every tween of bodyTl starts at position 0 (no sequencing)
RendersFromStart(at, d, dt) == BodyAdvances /\ bodyTl.time < at + d

\* the playhead passes the callback at position at
Passes(at, dt) == BodyAdvances /\ bodyTl.time < at /\ at <= BodyTimeAfter(dt)
\* the tween over [at, at + d] is rendered
Renders(at, d, dt) == BodyAdvances /\ bodyTl.time < at + d /\ at <= BodyTimeAfter(dt)

\* callbacks and writes of the rhino timelines at a tick, in order
RhinoFired(dt) ==
    (IF LegAdvances THEN {"leg.onUpdate"} ELSE {})
        \cup (IF Passes(PlayAt, dt) THEN {"legTl.play"} ELSE {})
        \cup (IF Renders(PlayAt, MoveDuration, dt) THEN {"position"} ELSE {})
        \cup (IF Passes(PauseAt, dt) THEN {"legTl.pause"} ELSE {})
        \cup (IF bodyTl.neck /\ Renders(PauseAt, NeckDuration, dt)
              THEN {"neck.onUpdate"} ELSE {})

\* faulty variant: the pause callback is missing
LegPausedAfterNoPause(dt) ==
    IF Passes(PlayAt, dt) THEN FALSE ELSE legTl.paused

\* legTl.paused after the tick: bodyTl.call(() => legTl.play()), then
\* bodyTl.call(() => legTl.pause())
LegPausedAfter(dt) ==
    IF Passes(PauseAt, dt) THEN TRUE
    ELSE IF Passes(PlayAt, dt) THEN FALSE
    ELSE legTl.paused

RhinoTick(dt) ==
    LET t == BodyTimeAfter(dt)
        from == IF bodyTl.inited THEN bodyTl.from ELSE rootX
        moving == Renders(PlayAt, MoveDuration, dt)
    IN  /\ legTl' = [legTl EXCEPT !.time = LegTimeAfter(dt), !.paused = LegPausedAfter(dt)]
        /\ bodyTl' = [bodyTl EXCEPT !.time = t,
                                    !.inited = @ \/ moving,
                                    !.from = IF moving THEN from ELSE @]
        /\ legPlays' = IF Passes(PlayAt, dt) /\ legTl.paused THEN legPlays + 1
                       ELSE legPlays
        /\ rootX' = IF moving
                    THEN Interp(from, XEnd,
                                Power2InOut(Min(t, PauseAt) - PlayAt, MoveDuration),
                                MoveDuration * MoveDuration)
                    ELSE rootX
        /\ quaternion' =
             [b \in AllBones |->
                IF b \in LegBones /\ LegAdvances THEN LegPose(b, LegTimeAfter(dt))
                ELSE IF b = NeckBone /\ bodyTl.neck /\ Renders(PauseAt, NeckDuration, dt)
                     THEN Slerp(startQuat.a, LookAtViewerQuat, "power2.out",
                                Power2Out(t - PauseAt, NeckDuration),
                                NeckDuration * NeckDuration)
                     ELSE quaternion[b]]
        /\ UNCHANGED <<rhinoMounted, rhinoSetupDone, bones, startQuat>>

----------------------------------------------------------------------------
(* The ticker *)

\* one tick of gsap's ticker, dt after the last one
GsapTick(dt) ==
    LET c == FlagRendered(dt)
    IN  /\ href = AppUrl
        /\ FlagTick(c, dt)
        /\ RhinoTick(dt)
        /\ fired' = {"tick"} \cup c.fired \cup RhinoFired(dt)
        /\ UNCHANGED assetVars

----------------------------------------------------------------------------
(* Specifications *)

\* the Flag groups the loader may deliver: 0 .. MaxMeshes meshes
FlagAssets == {[i \in 1..n |-> VertexCountOf(i)] : n \in 0..MaxMeshes}

InitState ==
    /\ flagMounted = "no"
    /\ flagSetupDone = FALSE
    /\ flagSetups = 0
    /\ flagSetupThrew = FALSE
    /\ rotationY = 0
    /\ waveStrength = 0
    /\ isClickable = FALSE
    /\ flagRef = NoRef
    /\ position = [m \in Meshes |-> [j \in 1..vertexCount[m] |-> <<RestX(j), 0, 0>>]]
    /\ originalPositions = [m \in Meshes |-> <<>>]
    /\ needsUpdate = [m \in Meshes |-> FALSE]
    /\ normalsComputed = {}
    /\ material = [m \in Meshes |-> m]
    /\ emissiveIntensity = [k \in Materials |-> InitialEmissive(k)]
    /\ flagTweens = <<>>
    /\ emissiveScheduled = 0
    /\ cursor = "default"
    /\ href = AppUrl
    /\ flagClock = 0
    /\ rhinoMounted = "no"
    /\ rhinoSetupDone = FALSE
    /\ bones = {}
    /\ legTl = NoTimeline
    /\ bodyTl = NoTimeline
    /\ quaternion = [b \in AllBones |-> RestPose(b)]
    /\ startQuat = Key("none")
    /\ rootX = 0
    /\ legPlays = 0
    /\ fired = {}

\* FlagModel and the render loop (ticker and frames), over every Flag asset
InitFlag ==
    /\ flagGroupFound \in BOOLEAN
    /\ vertexCount \in FlagAssets
    /\ foundBones = AllBones
    /\ InitState

NextFlag ==
    \/ FlagSetup
    \/ \E dt \in 1..MaxDt : GsapTick(dt)
    \/ \E time \in ClockSamples : Frame(time)

SpecFlag == InitFlag /\ [][NextFlag]_vars

\* FlagModel and the pointer events on its hit area, over every Flag asset
InitHitArea == InitFlag

NextHitArea ==
    \/ FlagSetup
    \/ \E dt \in 1..MaxDt : GsapTick(dt)
    \/ Click
    \/ PointerOver
    \/ PointerOut

SpecHitArea == InitHitArea /\ [][NextHitArea]_vars

\* the vertex counts a mesh of the Flag group may have
VertexCounts == {VertexCountOf(i) : i \in 1..3}
\* the Flag groups of 0 .. MaxMeshes meshes with any vertex counts in any order
AnyFlagAssets == UNION {[1..n -> VertexCounts] : n \in 0..MaxMeshes}

\* the setup effect of FlagModel over every such Flag group
InitSelect ==
    /\ flagGroupFound \in BOOLEAN
    /\ vertexCount \in AnyFlagAssets
    /\ foundBones = AllBones
    /\ InitState

NextSelect == FlagSetup

SpecSelect == InitSelect /\ [][NextSelect]_vars

\* FlagModel whose setup effect may run again, and the render loop
InitResetup ==
    /\ flagGroupFound = TRUE
    /\ vertexCount = [i \in 1..5 |-> VertexCountOf(i)]
    /\ foundBones = AllBones
    /\ InitState

NextResetup ==
    \/ FlagSetup
    \/ FlagSetupAgain
    \/ \E dt \in 1..MaxDt : GsapTick(dt)
    \/ \E time \in ClockSamples : Frame(time)

SpecResetup == InitResetup /\ [][NextResetup]_vars

\* RhinoModel alone, over every set of bones
InitRhino ==
    /\ flagGroupFound = TRUE
    /\ vertexCount = [i \in 1..5 |-> VertexCountOf(i)]
    /\ foundBones \in SUBSET AllBones
    /\ InitState

NextRhino ==
    \/ RhinoSetup
    \/ \E dt \in 1..MaxDt : GsapTick(dt)
    \/ RhinoCleanup

SpecRhino == InitRhino /\ [][NextRhino]_vars

\* the scene: both components, each set up by its own effect when its asset is
\* there and removed on its own
Init ==
    /\ flagGroupFound = TRUE
    /\ vertexCount = [i \in 1..5 |-> VertexCountOf(i)]
    /\ foundBones \in {AllBones, LegBones}
    /\ InitState

Next ==
    \/ FlagSetup
    \/ RhinoSetup
    \/ \E dt \in 1..MaxDt : GsapTick(dt)
    \/ FlagTeardown
    \/ RhinoCleanup

Spec == Init /\ [][Next]_vars

----------------------------------------------------------------------------
(* Events of each component's timelines *)

FlagEvents == {"rotate", "rotate.onComplete", "decay", "decay.onComplete", "emissive"}
RhinoEvents == {"leg.onUpdate", "legTl.play", "position", "legTl.pause", "neck.onUpdate"}

\* a tween of the given kind is pending on the root timeline
Pending(kind) == \E i \in 1..Len(flagTweens) : flagTweens[i].kind = kind

\* the rest positions the loader delivers for mesh m
RestPositions(m) == [j \in 1..vertexCount[m] |-> <<RestX(j), 0, 0>>]

----------------------------------------------------------------------------
(* C1..C10 *)

\* C1: a click navigates to the external URL only when the interactive flag
\* (isClickable) is true, so never before the rotate and decay tweens completed.
C1_NavigateOnlyWhenInteractive == href = SiteUrl => isClickable

\* C2: the flag sequence runs rotate (4 units), wave strength := 5, decay 5 -> 0
\* (5 units), interactive := true, strictly in this order; interactive implies the
\* decay tween completed and wave strength 0, and is never true before 9 units
\* after the flag setup.
C2_FlagPhasesInOrder ==
    /\ Pending("rotate") =>
          waveStrength = 0 /\ ~isClickable /\ ~Pending("decay")
             /\ flagClock < 4 * TicksPerUnit
    /\ "rotate.onComplete" \in fired =>
          waveStrength = 5 * WaveUnit /\ Pending("decay") /\ ~Pending("rotate")
             /\ rotationY = FullTurn /\ flagClock >= 4 * TicksPerUnit
    /\ Pending("decay") =>
          ~isClickable /\ ~Pending("rotate") /\ flagClock >= 4 * TicksPerUnit
             /\ (waveStrength > 0 /\ waveStrength <= 5 * WaveUnit)
    /\ waveStrength > 0 => Pending("decay")
    /\ "decay.onComplete" \in fired => isClickable /\ waveStrength = 0
    /\ isClickable =>
          waveStrength = 0 /\ ~Pending("decay") /\ ~Pending("rotate")
             /\ flagClock >= 9 * TicksPerUnit

\* C2 witness: the decay tween has just completed and made the flag interactive
C2_Witness == isClickable /\ "decay.onComplete" \in fired /\ flagClock >= 9 * TicksPerUnit

\* C3: with at least 2 meshes in the Flag group the setup does not fail: the
\* present targets are cached and the rotate tween is started.
C3_SetupSucceedsFromTwoMeshes ==
    (flagSetupDone /\ flagGroupFound /\ Len(vertexCount) >= 2) =>
        /\ ~flagSetupThrew
        /\ flagRef.current # 0 /\ flagRef.secondary # 0
        /\ \A k \in 1..5 : Ranked(k) # 0 => originalPositions[Ranked(k)] # <<>>
        /\ (flagClock = 0 => Pending("rotate"))

\* C4: with fewer than 2 meshes, or no Flag group, the setup aborts before any
\* timeline is created: wave strength stays 0, no rest positions are cached and no
\* frame writes a vertex buffer or sets a dirty flag.
C4_AbortLeavesFlagStatic ==
    (~flagGroupFound \/ Len(vertexCount) < 2) =>
        /\ waveStrength = 0
        /\ flagTweens = <<>>
        /\ ~flagSetupThrew
        /\ flagRef = NoRef
        /\ \A m \in Meshes :
              /\ originalPositions[m] = <<>>
              /\ ~needsUpdate[m]
              /\ position[m] = RestPositions(m)

\* C4 witness: a frame ran after the setup of a group of one mesh aborted
C4_Witness ==
    flagSetupDone /\ flagGroupFound /\ Len(vertexCount) = 1 /\ "frame" \in fired
        /\ flagClock > 0

C6_TeardownSilencesTimelines ==
    /\ flagMounted = "removed" => fired \cap FlagEvents = {}
    /\ rhinoMounted = "removed" => fired \cap RhinoEvents = {}

\* C7: once the mascot timelines are killed, ticks produce no further callback:
\* leg joints, neck joint and root position are never written again, the leg loop
\* is never started, and a second kill changes nothing.
C7_KilledTimelinesStaySilent ==
    [][(rhinoMounted = "removed" /\ rhinoSetupDone) =>
          /\ fired' \cap RhinoEvents = {}
          /\ quaternion' = quaternion
          /\ rootX' = rootX
          /\ legPlays' = legPlays
          /\ ~Running(legTl') /\ ~Running(bodyTl')
          /\ Kill(legTl') = legTl /\ Kill(bodyTl') = bodyTl]_vars

\* C7 witness: killed during the walk (the leg loop was playing), and ticking on
C7_Witness ==
    rhinoMounted = "removed" /\ rhinoSetupDone /\ ~legTl.paused
        /\ bodyTl.time > 5 * TicksPerUnit /\ bodyTl.time < 9 * TicksPerUnit
        /\ "tick" \in fired

\* C8: with any leg joint unresolved the mascot setup aborts: no timeline is
\* created and no joint orientation or root position is ever changed, whether or
\* not the neck joint is present.
C8_MissingLegAborts ==
    ~(LegBones \subseteq foundBones) =>
        /\ ~legTl.created /\ ~bodyTl.created /\ ~rhinoSetupDone
        /\ quaternion = [b \in AllBones |-> RestPose(b)]
        /\ rootX = 0
        /\ legPlays = 0
        /\ fired \cap RhinoEvents = {}

\* C8 witness: three legs and the neck resolved, setup ran, the ticker ticked
C8_Witness ==
    /\ rhinoMounted = "yes" /\ "tick" \in fired
    /\ Cardinality(LegBones \cap foundBones) = 3 /\ NeckBone \in foundBones

\* C9: without a neck joint the mascot sequence is wait -> play -> walk -> pause
\* with the timing it has with a neck joint, and the body timeline completes
\* right after the pause, with no look-at step.
C9_NoNeckSameSequence ==
    /\ rhinoSetupDone =>
          \* the schedule, with or without the neck joint
          /\ bodyTl.time < 5 * TicksPerUnit =>
                legTl.paused /\ legPlays = 0 /\ rootX = XStart
          /\ (bodyTl.time >= 5 * TicksPerUnit /\ bodyTl.time < 9 * TicksPerUnit) =>
                ~legTl.paused /\ legPlays = 1
          /\ bodyTl.time >= 9 * TicksPerUnit =>
                legTl.paused /\ legPlays = 1 /\ rootX = XEnd
    /\ (rhinoSetupDone /\ NeckBone \notin foundBones) =>
          /\ bodyTl.time <= 9 * TicksPerUnit
          /\ "legTl.pause" \in fired => ~BodyAdvances
          /\ "neck.onUpdate" \notin fired
          /\ quaternion[NeckBone] = RestPose(NeckBone)

\* C9 witness: no neck joint, and the leg loop has just been paused
C9_Witness ==
    rhinoSetupDone /\ NeckBone \notin foundBones /\ "legTl.pause" \in fired
        /\ legTl.paused /\ rootX = XEnd

\* C10: the leg loop starts paused, goes from paused to playing exactly once, when
\* the 5-unit wait elapses, is paused when the 4-unit root position tween
\* completes at 9 units, and is never resumed.
C10_LegLoopPlaysOnce ==
    rhinoSetupDone =>
        /\ bodyTl.time < 5 * TicksPerUnit => legTl.paused /\ legPlays = 0
        /\ (bodyTl.time >= 5 * TicksPerUnit /\ bodyTl.time < 9 * TicksPerUnit) =>
              ~legTl.paused /\ legPlays = 1
        /\ bodyTl.time >= 9 * TicksPerUnit =>
              legTl.paused /\ legPlays = 1 /\ rootX = XEnd
        /\ "legTl.play" \in fired =>
              bodyTl.time >= 5 * TicksPerUnit /\ bodyTl.time < 5 * TicksPerUnit + MaxDt
        /\ "legTl.pause" \in fired =>
              bodyTl.time >= 9 * TicksPerUnit /\ bodyTl.time < 9 * TicksPerUnit + MaxDt
        /\ "leg.onUpdate" \in fired => bodyTl.time > 5 * TicksPerUnit

\* C10 witness: the look-at blend is over and the leg loop, played once, is paused
C10_Witness ==
    /\ rhinoSetupDone /\ bodyTl.neck /\ bodyTl.time = BodyDuration(TRUE)
    /\ legTl.paused /\ legPlays = 1 /\ rhinoMounted = "yes"

----------------------------------------------------------------------------
(* C11..C20 *)

\* C11: the steps of the body timeline run in declared order without overlap: the
\* root position tween does not begin before the leg loop start callback fired,
\* the pause callback does not fire before the root position tween completed, and
\* the neck look-at tween updates only once the leg loop is paused.
C11_BodyStepsInOrder ==
    rhinoSetupDone =>
        /\ ("position" \in fired \/ bodyTl.inited \/ rootX # XStart) =>
              legPlays = 1 /\ bodyTl.time >= 5 * TicksPerUnit
        /\ "legTl.play" \in fired =>
              "legTl.pause" \notin fired /\ "neck.onUpdate" \notin fired
        /\ "legTl.pause" \in fired =>
              rootX = XEnd /\ bodyTl.time >= 9 * TicksPerUnit
        /\ ("neck.onUpdate" \in fired \/ quaternion[NeckBone] # RestPose(NeckBone)) =>
              /\ legTl.paused /\ legPlays = 1
              /\ rootX = XEnd
              /\ bodyTl.time >= 9 * TicksPerUnit

\* C11 witness: a tick that overshoots the end of the root position tween renders
\* its last update, fires the pause callback and makes the first neck update
C11_Witness ==
    /\ rhinoSetupDone /\ bodyTl.time > 9 * TicksPerUnit
    /\ {"position", "legTl.pause", "neck.onUpdate"} \subseteq fired

\* C12: once the body timeline paused the leg loop, no later tick runs a leg
\* update callback, the leg loop's time stands still, and the four leg joints keep
\* the orientation of the pause instant (the pose of the loop at its time, no
\* snap-back to the rest pose), also throughout the neck blend.
C12_PausedLegLoopKeepsPose ==
    [][(rhinoSetupDone /\ legTl.paused /\ legPlays = 1) =>
          /\ \A b \in LegBones : quaternion[b] = LegPose(b, legTl.time)
          /\ "leg.onUpdate" \notin fired'
          /\ legTl'.time = legTl.time
          /\ legTl'.paused
          /\ \A b \in LegBones : quaternion'[b] = quaternion[b]]_vars

\* C12 witness: paused mid-cycle, and the neck blend has run to its end since
C12_Witness ==
    /\ rhinoSetupDone /\ legTl.paused /\ legPlays = 1 /\ legTl.time # 0
    /\ bodyTl.neck /\ bodyTl.time = BodyDuration(TRUE)
    /\ "neck.onUpdate" \in fired /\ "legTl.pause" \notin fired
    /\ \A b \in LegBones : quaternion[b] # RestPose(b)

\* C13: for every deformation target the rest position snapshot is captured once,
\* before any displacement is written to the mesh, and never modified: whenever a
\* snapshot is present it holds the rest positions the mesh was loaded with, also
\* when the setup of the flag component runs again.
C13_RestSnapshotCapturedOnce ==
    \A m \in Meshes :
        originalPositions[m] # <<>> => originalPositions[m] = RestPositions(m)

\* C14: a frame tick with wave strength <= 0 skips the whole pass: it writes no
\* vertex buffer, sets no dirty flag and schedules no emissive tween, and leaves
\* every mesh and material as it was.
C14_FrameSkippedWithoutWave ==
    [][("frame" \in fired' /\ waveStrength <= 0) =>
          UNCHANGED <<position, needsUpdate, flagTweens, emissiveScheduled,
                      emissiveIntensity, material, originalPositions,
                      normalsComputed>>]_vars

\* C14 witness: a frame tick ran while the rotate tween was in progress (targets
\* cached, wave strength 0) and left every buffer clean
C14_Witness ==
    /\ "frame" \in fired /\ waveStrength = 0 /\ Pending("rotate") /\ flagClock > 0
    /\ flagRef.current # 0 /\ flagRef.secondary # 0
    /\ \A m \in Meshes : ~needsUpdate[m] /\ position[m] = RestPositions(m)

\* C15: for every Flag group of n >= 2 meshes the selected targets primary ..
\* quincenternary are exactly the first min(5, n) meshes of the group ordered by
\* vertex count descending, meshes of equal count kept in traversal order; the
\* slots beyond n are undefined, and the references stored are these targets.
C15_TopFiveByVertexCount ==
    (flagSetupDone /\ flagGroupFound /\ Len(vertexCount) >= 2) =>
        LET k == Min(5, Len(vertexCount))
            Before(a, b) ==
                \/ vertexCount[a] > vertexCount[b]
                \/ vertexCount[a] = vertexCount[b] /\ a < b
        IN  /\ \A i \in 1..k : Selected[i] \in Meshes
            /\ \A i \in (k + 1)..5 : Selected[i] = 0
            /\ \A i, j \in 1..k : i < j => Before(Selected[i], Selected[j])
            /\ \A m \in Meshes \ {Selected[i] : i \in 1..k} :
                  \A i \in 1..k : Before(Selected[i], m)
            /\ ~flagSetupThrew =>
                  flagRef = [current |-> Selected[1], secondary |-> Selected[2],
                             tertiary |-> Selected[3], quaternary |-> Selected[4],
                             quincenternary |-> Selected[5]]

\* C15 witness: more than five meshes, given in ascending order at first, with two
\* selected meshes of equal count and a mesh left out that ties with the fifth
C15_Witness ==
    /\ flagSetupDone /\ flagGroupFound /\ Len(vertexCount) > 5
    /\ vertexCount[1] < vertexCount[2]
    /\ \E i \in 1..4 : vertexCount[Selected[i]] = vertexCount[Selected[i + 1]]
    /\ \E m \in Meshes \ {Selected[i] : i \in 1..5} :
          vertexCount[m] = vertexCount[Selected[5]]
    /\ flagRef.current = Selected[1] /\ Pending("rotate")

\* the tweens of the given kind that have started writing the given target
Writers(kind, target) ==
    {i \in 1..Len(flagTweens) :
        /\ flagTweens[i].kind = kind
        /\ flagTweens[i].target = target
        /\ flagTweens[i].inited}

\* C16: no two animation routines write the same resource: at every instant the
\* flag node rotation, the wave strength and each material's emissive intensity
\* have at most one active tween writing them.
C16_OneWriterPerResource ==
    /\ Cardinality(Writers("rotate", 0)) <= 1
    /\ Cardinality(Writers("decay", 0)) <= 1
    /\ \A mat \in Materials : Cardinality(Writers("emissive", mat)) <= 1

\* C17: the ripple pass writes a vertex whose rest x is at or beyond the anchored
\* edge (x <= -2) exactly at its rest position, for every time and wave strength;
\* for every vertex the written x is the rest x, and the displacement added to y
\* equals the displacement added to z.
C17_AnchoredEdgeStaysAtRest ==
    \A m \in Meshes :
        originalPositions[m] # <<>> =>
            \A j \in 1..Len(position[m]) :
                LET v == position[m][j]
                    o == originalPositions[m][j]
                IN  /\ v[1] = o[1]
                    /\ v[2] - o[2] = v[3] - o[3]
                    /\ o[1] <= 0 - 2 => v = o

\* C17 witness: a frame tick with wave strength > 0 has just rippled a mesh that
\* has a vertex beyond the anchored edge, one on it, and a vertex it displaced
C17_Witness ==
    /\ "frame" \in fired /\ waveStrength > 0
    /\ \E m \in RippleTargets :
          /\ needsUpdate[m]
          /\ \E j \in 1..Len(position[m]) : originalPositions[m][j][1] < 0 - 2
          /\ \E j \in 1..Len(position[m]) : originalPositions[m][j][1] = 0 - 2
          /\ \E j \in 1..Len(position[m]) :
                position[m][j][2] # originalPositions[m][j][2]

\* C18: the neck look-at blend starts from the neck joint's orientation as it is
\* when the look-at phase starts: up to and at blend progress 0 the neck keeps the
\* orientation it had before the phase, which is the captured start orientation,
\* and at progress 1 it has the fixed look-at-viewer orientation.
C18_NeckBlendFromCurrentToViewer ==
    (rhinoSetupDone /\ bodyTl.neck) =>
        /\ startQuat = RestPose(NeckBone)
        /\ bodyTl.time <= 9 * TicksPerUnit => quaternion[NeckBone] = startQuat
        /\ ("neck.onUpdate" \in fired /\ bodyTl.time = 9 * TicksPerUnit) =>
              quaternion[NeckBone] = startQuat /\ legTl.paused
        /\ (bodyTl.time > 9 * TicksPerUnit /\ bodyTl.time < BodyDuration(TRUE)) =>
              /\ quaternion[NeckBone].a = startQuat.a
              /\ quaternion[NeckBone].b = LookAtViewerQuat
              /\ quaternion[NeckBone].ease = "power2.out"
        /\ bodyTl.time = BodyDuration(TRUE) =>
              quaternion[NeckBone] = Key(LookAtViewerQuat)

\* C18 witness: the blend made its first update at progress 0, in the tick that
\* paused the leg loop
C18_Witness ==
    /\ rhinoSetupDone /\ bodyTl.neck /\ bodyTl.time = 9 * TicksPerUnit
    /\ {"legTl.pause", "neck.onUpdate"} \subseteq fired
    /\ quaternion[NeckBone] = RestPose(NeckBone)

\* C19: every frame tick with wave strength > 0 and primary and secondary targets
\* present schedules a new emissive tween for the primary and for the secondary
\* material, whatever was scheduled before: the number of emissive tweens grows by
\* one per material per qualifying tick.
C19_EmissiveScheduledEveryFrame ==
    [][("frame" \in fired' /\ waveStrength > 0 /\ flagRef.current # 0
            /\ flagRef.secondary # 0) =>
          /\ emissiveScheduled' = emissiveScheduled + 2
          /\ flagTweens' = flagTweens \o
                <<[kind |-> "emissive", time |-> 0 - 3 * TicksPerUnit, inited |-> FALSE,
                   from |-> 0, target |-> material[flagRef.current]],
                  [kind |-> "emissive", time |-> 0 - 3 * TicksPerUnit, inited |-> FALSE,
                   from |-> 0, target |-> material[flagRef.secondary]]>>]_vars

\* C19 witness: a second qualifying frame tick has run, and two emissive tweens
\* are pending on the emissive intensity of the same material
C19_Witness ==
    /\ "frame" \in fired /\ waveStrength > 0 /\ emissiveScheduled = 4
    /\ \E i, j \in 1..Len(flagTweens) :
          /\ i < j
          /\ flagTweens[i].kind = "emissive" /\ flagTweens[j].kind = "emissive"
          /\ flagTweens[i].target = flagTweens[j].target
          /\ flagTweens[i].target = material[flagRef.current]

\* C20: once the decay tween has completed (wave strength 0, interactive), every
\* deformation target's vertex positions equal its cached rest positions: the flag
\* rests undeformed.
C20_FlagRestsUndeformed ==
    (isClickable /\ waveStrength = 0) =>
        \A m \in Meshes :
            originalPositions[m] # <<>> => position[m] = originalPositions[m]

====
